---- MODULE Spec2Model ----
(***************************************************************************)
(* Model of the reranker worker: POST /rerank (validation, cache lookup,   *)
(* math / AI ranking, top-K truncation, cache write), generateCacheKey,    *)
(* aiRerank with its fallback, and SmartReranker.rerank.                   *)
(*                                                                         *)
(* Strings are sequences of one-character strings.  Scores are integers in *)
(* hundredths (0..100 for a factor in [0,1]); a finalScore is in units of  *)
(* 1/10000 because the weights are in hundredths too.                      *)
(***************************************************************************)
EXTENDS Integers, Sequences, FiniteSets, TLC

VARIABLES
    store,                  \* RERANK_CACHE: key -> stored string
    wrote,                  \* key -> item count and ranked list of the request
                            \*   that put the entry (history)
    smartRerankerInstance,  \* module-level singleton: loaded or not
    tfidf,                  \* the documents the singleton's tfidf field holds
    currentYear,            \* what new Date().getFullYear() returns now
    lib,                    \* which behaviour the scoring libraries have
    pc,                     \* per request slot: where the handler is
    body,                   \* per slot: the parsed JSON body
    cacheKey,               \* per slot: the key generateCacheKey returned
    excl,                   \* per slot: excludeFactors as the handler holds it
    fellBack,               \* per slot: aiRerank went to mathRerank
    aiSeen,                 \* per slot: what ai.run answered (history)
    full,                   \* per slot: ranked list before truncation (history)
    rankYear,               \* per slot: the year when the list was ranked (history)
    response,               \* per slot: the response object
    status,                 \* per slot: HTTP status sent, 0 while none is
    ops,                    \* per slot: external operations issued (history)
    served,                 \* requests accepted so far (bounds the run)
    calls,                  \* rerank on its own: the calls made so far
    kin,                    \* key derivation study: the two inputs
    kout                    \* key derivation study: the two keys

vars == <<store, wrote, smartRerankerInstance, currentYear, lib, pc, body, cacheKey,
          excl, fellBack, aiSeen, full, rankYear, response, status, ops, served,
          tfidf, calls, kin, kout>>

handlerVars == <<store, wrote, smartRerankerInstance, currentYear, lib, pc, body,
                 cacheKey, excl, fellBack, aiSeen, full, rankYear, response,
                 status, ops, served,
                 tfidf>>

-----------------------------------------------------------------------------
(* Bounds of the model *)

MaxReqs == 2       \* requests accepted in one run
FirstYear == 2026  \* the year when the run starts
MaxTick == 1       \* how many times the year may change during a run
MaxLib == 1        \* library behaviours 0..MaxLib
MaxKeyLen == 2     \* longest query / id / content in the key study
MaxCount == 2      \* the operation counters of a request stop counting here
MaxCalls == 2      \* calls of rerank made when it is studied on its own

\* request slots one worker handles concurrently
Procs == {1, 2}

\* the slot used when requests come one after another
Solo == {1}

-----------------------------------------------------------------------------
(* JavaScript values *)

Undefined == [t |-> "undefined"]
Null == [t |-> "null"]
Str(s) == [t |-> "str", s |-> s]
Num(n) == [t |-> "num", n |-> n]
Arr(a) == [t |-> "array", a |-> a]

\* ToBoolean, as `!x` and `x && ...` apply it
Truthy(v) ==
    CASE v.t = "str" -> v.s # <<>>
      [] v.t = "num" -> v.n # 0
      [] v.t = "array" -> TRUE
      [] v.t = "obj" -> TRUE
      [] OTHER -> FALSE

\* a default in a destructuring pattern applies to undefined only
Default(v, d) == IF v.t = "undefined" THEN d ELSE v

Min(a, b) == IF a <= b THEN a ELSE b
Max(a, b) == IF a >= b THEN a ELSE b

\* Array.prototype.slice(0, k) for an integer k >= 0
Slice(s, k) == SubSeq(s, 1, Min(k, Len(s)))

-----------------------------------------------------------------------------
(* Strings *)

MathStr == <<"m", "a", "t", "h">>
AiStr == <<"a", "i">>
VectorScoreStr == <<"v", "e", "c", "t", "o", "r", "S", "c", "o", "r", "e">>
SemanticScoreStr ==
    <<"s", "e", "m", "a", "n", "t", "i", "c", "S", "c", "o", "r", "e">>
QueryTermMatchStr ==
    <<"q", "u", "e", "r", "y", "T", "e", "r", "m", "M", "a", "t", "c", "h">>
RecencyStr == <<"r", "e", "c", "e", "n", "c", "y">>
LengthStr == <<"l", "e", "n", "g", "t", "h">>

\* UTF-16 code units of the characters the model uses
CharCode(c) ==
    CASE c = " " -> 32 [] c = "," -> 44 [] c = "0" -> 48 [] c = "1" -> 49
      [] c = "2" -> 50 [] c = "3" -> 51 [] c = "4" -> 52 [] c = "5" -> 53
      [] c = "6" -> 54 [] c = "7" -> 55 [] c = "8" -> 56 [] c = "9" -> 57
      [] c = ":" -> 58 [] c = "M" -> 77 [] c = "S" -> 83 [] c = "T" -> 84
      [] c = "a" -> 97 [] c = "b" -> 98 [] c = "c" -> 99 [] c = "d" -> 100
      [] c = "e" -> 101 [] c = "g" -> 103 [] c = "h" -> 104 [] c = "i" -> 105
      [] c = "l" -> 108 [] c = "m" -> 109 [] c = "n" -> 110 [] c = "o" -> 111
      [] c = "q" -> 113 [] c = "r" -> 114 [] c = "s" -> 115 [] c = "t" -> 116
      [] c = "u" -> 117 [] c = "v" -> 118 [] c = "x" -> 120 [] c = "y" -> 121
      [] c = "|" -> 124

\* a < b in the order Array.prototype.sort() uses without a comparator
RECURSIVE StrLess(_, _)
StrLess(a, b) ==
    IF b = <<>> THEN FALSE
    ELSE IF a = <<>> THEN TRUE
    ELSE IF CharCode(Head(a)) # CharCode(Head(b))
         THEN CharCode(Head(a)) < CharCode(Head(b))
         ELSE StrLess(Tail(a), Tail(b))

\* insert x after the last element that is not greater than it
RECURSIVE InsertStr(_, _)
InsertStr(sorted, x) ==
    IF sorted = <<>> THEN <<x>>
    ELSE IF StrLess(x, Head(sorted)) THEN <<x>> \o sorted
    ELSE <<Head(sorted)>> \o InsertStr(Tail(sorted), x)

\* the first n elements of a, sorted
RECURSIVE SortStringsUpTo(_, _)
SortStringsUpTo(a, n) ==
    IF n = 0 THEN <<>>
    ELSE InsertStr(SortStringsUpTo(a, n - 1), a[n])

\* Array.prototype.sort() on an array of strings
SortStrings(a) == SortStringsUpTo(a, Len(a))

\* Array.prototype.join(sep) on an array of strings
RECURSIVE Join(_, _)
Join(a, sep) ==
    IF a = <<>> THEN <<>>
    ELSE IF Len(a) = 1 THEN a[1]
    ELSE a[1] \o sep \o Join(Tail(a), sep)

\* `${v}` for a string-valued field of a validated request
Text(v) == v.s

-----------------------------------------------------------------------------
(* generateCacheKey *)

KeyPrefix == <<"r", "e", "r", "a", "n", "k", ":">>

\* `${item.id}:${item.content}` of every item, joined by "|"
ItemsHash(items) ==
    Join([i \in 1..Len(items) |-> Text(items[i].id) \o <<":">> \o Text(items[i].content)],
         <<"|">>)

\* mutant: the excluded factors are joined in the order given
KeyStringUnsorted(query, items, mode, excludeFactors) ==
    query \o <<":">> \o ItemsHash(items) \o <<":">> \o mode \o <<":">>
          \o Join(excludeFactors, <<",">>)

\* the string that is digested
KeyString(query, items, mode, excludeFactors) ==
    query \o <<":">> \o ItemsHash(items) \o <<":">> \o mode \o <<":">>
          \o Join(SortStrings(excludeFactors), <<",">>)

\* SHA-256 and its 16-digit hex prefix, idealised as collision-free: the
\* digest of a string is represented by the string itself
DigestHex(s) == s

generateCacheKey(query, items, mode, excludeFactors) ==
    KeyPrefix \o DigestHex(KeyString(query, items, mode, excludeFactors))

-----------------------------------------------------------------------------
(* SmartReranker: the scorers *)

ToLowerChar(c) ==
    CASE c = "M" -> "m" [] c = "S" -> "s" [] c = "T" -> "t" [] OTHER -> c

ToLower(s) == [i \in 1..Len(s) |-> ToLowerChar(s[i])]

IsDigit(c) == CharCode(c) \in 48..57

\* \w of a regular expression
IsWordChar(c) ==
    \/ CharCode(c) \in 48..57
    \/ CharCode(c) \in 65..90
    \/ CharCode(c) \in 97..122

\* /\b(20[0-2][0-9])\b/ matches at position i of s
YearAt(s, i) ==
    /\ i + 3 <= Len(s)
    /\ s[i] = "2" /\ s[i + 1] = "0"
    /\ s[i + 2] \in {"0", "1", "2"}
    /\ IsDigit(s[i + 3])
    /\ (i = 1 \/ ~IsWordChar(s[i - 1]))
    /\ (i + 3 = Len(s) \/ ~IsWordChar(s[i + 4]))

\* parseInt of the four digits matched at i
YearValue(s, i) ==
    2000 + 10 * (CharCode(s[i + 2]) - 48) + (CharCode(s[i + 3]) - 48)

\* the years content.match(...) finds
YearMatches(content) ==
    {YearValue(content, i) : i \in {j \in 1..Len(content) : YearAt(content, j)}}

SetMax(S) == CHOOSE m \in S : \A x \in S : x <= m

\* mutant: the score of an old year is not held at 0.5
calculateRecencyScoreNoFloor(content) ==
    IF YearMatches(content) = {} THEN 70
    ELSE LET yearDiff == currentYear - SetMax(YearMatches(content))
         IN  IF yearDiff <= 1 THEN 100
             ELSE IF yearDiff <= 2 THEN 90
             ELSE IF yearDiff <= 5 THEN 80
             ELSE Max(0, 100 - 10 * yearDiff)

calculateRecencyScore(content) ==
    IF YearMatches(content) = {} THEN 70
    ELSE LET yearDiff == currentYear - SetMax(YearMatches(content))
         IN  IF yearDiff <= 1 THEN 100
             ELSE IF yearDiff <= 2 THEN 90
             ELSE IF yearDiff <= 5 THEN 80
             ELSE Max(50, 100 - 10 * yearDiff)

calculateLengthScore(query, content) ==
    IF Len(content) < 50 THEN 30
    ELSE IF 2 * Len(content) < Len(query) THEN 50
    ELSE IF Len(content) > 1000 THEN 70
    ELSE 80

\* the non-empty elements of s.split(/\s+/): the maximal runs without a space
RECURSIVE Terms(_, _)
Terms(s, cur) ==
    IF s = <<>> THEN (IF cur = <<>> THEN <<>> ELSE <<cur>>)
    ELSE IF Head(s) = " "
         THEN (IF cur = <<>> THEN <<>> ELSE <<cur>>) \o Terms(Tail(s), <<>>)
         ELSE Terms(Tail(s), Append(cur, Head(s)))

\* String.prototype.includes
Includes(s, t) ==
    \E i \in 0..(Len(s) - Len(t)) : SubSeq(s, i + 1, i + Len(t)) = t

\* matched / total, in hundredths (rounded down)
calculateQueryTermMatch(query, content) ==
    LET all == Terms(ToLower(query), <<>>)
        queryTerms == {i \in 1..Len(all) : Len(all[i]) > 2}
        matched == {i \in queryTerms : Includes(ToLower(content), all[i])}
    IN  IF queryTerms = {} THEN 0
        ELSE (100 * Cardinality(matched)) \div Cardinality(queryTerms)

\* The scores that come out of the libraries (natural's TfIdf and
\* JaroWinkler, compromise, string-similarity, Fuse) are functions of their
\* arguments that the repository does not define: lib selects one such
\* function, a fixed mixing of the arguments' characters.
RECURSIVE StrWeightUpTo(_, _)
StrWeightUpTo(s, n) ==
    IF n = 0 THEN 0
    ELSE n * CharCode(s[n]) + StrWeightUpTo(s, n - 1)

StrWeight(s) == StrWeightUpTo(s, Len(s))

RECURSIVE CorpusWeight(_)
CorpusWeight(docs) ==
    IF docs = <<>> THEN 0 ELSE StrWeight(Head(docs)) + CorpusWeight(Tail(docs))

LibLevel(n) == (n % 3) * 50

Mix(kind, query, content) ==
    (lib + 1) * (StrWeight(query) + 2 * StrWeight(content)) + kind + lib

\* mutant: the TfIdf instance of the previous call is kept, and the
\* documents are added behind the ones it holds
TfIdfDocsKept(before, allContents, query) == before \o allContents \o <<query>>

\* the documents this.tfidf holds once the corpus and the query were added:
\* the field is first assigned a new TfIdf instance, so what it held before
\* the call is dropped
TfIdfDocs(before, allContents, query) == allContents \o <<query>>

\* allContents.findIndex(doc => doc === content), counted from 1; 0: none
FindIndex(allContents, content) ==
    IF \A i \in 1..Len(allContents) : allContents[i] # content THEN 0
    ELSE CHOOSE i \in 1..Len(allContents) :
            /\ allContents[i] = content
            /\ \A j \in 1..(i - 1) : allContents[j] # content

\* overlap / queryWeight between the terms of the document at queryIndex and
\* of the document at contentIndex of the TF-IDF model this.tfidf holds
calculateTfIdfSimilarity(query, content, allContents) ==
    LET docs == TfIdfDocs(tfidf, allContents, query)
        queryIndex == Len(allContents) + 1
        contentIndex == FindIndex(allContents, content)
    IN  IF contentIndex = 0 THEN 0
        ELSE LibLevel(Mix(1, docs[queryIndex], docs[contentIndex])
                      + CorpusWeight(docs))

calculateSemanticSimilarity(query, content) == LibLevel(Mix(2, query, content))

calculateStringSimilarity(query, content) == LibLevel(Mix(3, query, content))

\* Fuse's score of an item: 0 (perfect) .. 60 (the threshold), or -1: no match
FuseScore(query, content) ==
    LET n == Mix(4, query, content) % 4
    IN  IF n = 3 THEN -1 ELSE n * 30

\* fuse.search(query): the indexes of the matching items, best score first
FuseSearch(query, items) ==
    {i \in 1..Len(items) : FuseScore(query, Text(items[i].content)) >= 0}

\* the Map calculateFuzzyScore returns: results are visited in score order,
\* so an id shared by several results keeps the score of the last (worst) one
calculateFuzzyScore(query, items) ==
    LET results == FuseSearch(query, items)
        ids == {Text(items[i].id) : i \in results}
        last(id) == SetMax({FuseScore(query, Text(items[i].content)) :
                              i \in {j \in results : Text(items[j].id) = id}})
    IN  [id \in ids |-> IF last(id) # 0 THEN Max(0, 100 - last(id)) ELSE 0]

-----------------------------------------------------------------------------
(* SmartReranker.rerank *)

\* Array.prototype.includes
InList(x, a) == \E i \in 1..Len(a) : a[i] = x

\* the five named factors of one item, an excluded one taken as 0
Scores(query, content, allContents, excludeFactors) ==
    [vectorScore |->
        IF InList(VectorScoreStr, excludeFactors) THEN 0
        ELSE calculateTfIdfSimilarity(query, content, allContents),
     semanticScore |->
        IF InList(SemanticScoreStr, excludeFactors) THEN 0
        ELSE calculateSemanticSimilarity(query, content),
     queryTermMatch |->
        IF InList(QueryTermMatchStr, excludeFactors) THEN 0
        ELSE calculateQueryTermMatch(query, content),
     recency |->
        IF InList(RecencyStr, excludeFactors) THEN 0
        ELSE calculateRecencyScore(content),
     length |->
        IF InList(LengthStr, excludeFactors) THEN 0
        ELSE calculateLengthScore(query, content)]

\* Object.values(scores).filter(score => score > 0).length
ActiveFactors(scores) ==
    Cardinality({f \in DOMAIN scores : scores[f] > 0})

\* mutant: the weighted sum whether or not a factor is active
FinalScoreWeighted(scores, stringScore, fuzzyScore) ==
    scores.vectorScore * 25 + scores.semanticScore * 25
    + scores.queryTermMatch * 20 + stringScore * 15 + fuzzyScore * 10
    + scores.recency * 3 + scores.length * 2

\* the weighted sum, or the text-similarity formula when no factor is active
FinalScore(scores, stringScore, fuzzyScore) ==
    IF ActiveFactors(scores) > 0
    THEN scores.vectorScore * 25 + scores.semanticScore * 25
         + scores.queryTermMatch * 20 + stringScore * 15 + fuzzyScore * 10
         + scores.recency * 3 + scores.length * 2
    ELSE stringScore * 60 + fuzzyScore * 40

\* the object rerank's map callback returns for one item
RankedItem(query, item, allContents, fuzzyScores, excludeFactors) ==
    LET content == Text(item.content)
        scores == Scores(query, content, allContents, excludeFactors)
        stringScore == calculateStringSimilarity(query, content)
        fuzzyScore == IF Text(item.id) \in DOMAIN fuzzyScores
                      THEN fuzzyScores[Text(item.id)] ELSE 0
    IN  [t |-> "obj", id |-> item.id, content |-> item.content,
         finalScore |-> Num(FinalScore(scores, stringScore, fuzzyScore)),
         length |-> Num(Len(content)),
         debug |-> [vectorScore |-> scores.vectorScore,
                    semanticScore |-> scores.semanticScore,
                    queryTermMatch |-> scores.queryTermMatch,
                    stringScore |-> stringScore,
                    fuzzyScore |-> fuzzyScore,
                    recency |-> scores.recency,
                    lengthScore |-> scores.length,
                    excludedFactors |-> excludeFactors]]

\* what the comparator reads: x.finalScore || 0
SortScore(x) == IF Truthy(x.finalScore) THEN x.finalScore.n ELSE 0

\* mutant: x goes before the elements of equal score
RECURSIVE InsertByScoreUnstable(_, _)
InsertByScoreUnstable(sorted, x) ==
    IF sorted = <<>> THEN <<x>>
    ELSE IF SortScore(Head(sorted)) <= SortScore(x) THEN <<x>> \o sorted
    ELSE <<Head(sorted)>> \o InsertByScoreUnstable(Tail(sorted), x)

\* insert x behind every element whose score is not lower than its own
RECURSIVE InsertByScore(_, _)
InsertByScore(sorted, x) ==
    IF sorted = <<>> THEN <<x>>
    ELSE IF SortScore(Head(sorted)) < SortScore(x) THEN <<x>> \o sorted
    ELSE <<Head(sorted)>> \o InsertByScore(Tail(sorted), x)

\* the first n elements of a, sorted
RECURSIVE SortByScoreUpTo(_, _)
SortByScoreUpTo(a, n) ==
    IF n = 0 THEN <<>>
    ELSE InsertByScore(SortByScoreUpTo(a, n - 1), a[n])

\* Array.prototype.sort((a, b) => (b.finalScore || 0) - (a.finalScore || 0)):
\* descending, stable
SortByScore(a) == SortByScoreUpTo(a, Len(a))

rerank(query, items, excludeFactors) ==
    LET allContents == [i \in 1..Len(items) |-> Text(items[i].content)]
        fuzzyScores == calculateFuzzyScore(query, items)
    IN  SortByScore([i \in 1..Len(items) |->
            RankedItem(query, items[i], allContents, fuzzyScores, excludeFactors)])

\* what the tfidf field holds when rerank returns: calculateTfIdfSimilarity
\* is the only writer, and it runs for every item unless vectorScore is excluded
TfIdfAfter(query, items, excludeFactors) ==
    IF items = <<>> \/ InList(VectorScoreStr, excludeFactors) THEN tfidf
    ELSE TfIdfDocs(tfidf, [i \in 1..Len(items) |-> Text(items[i].content)], query)

-----------------------------------------------------------------------------
(* aiRerank, after ai.run has answered *)

\* an element of response.response that the type guard keeps
WellFormed(e) == e.t = "obj" /\ e.id.t = "num" /\ e.score.t = "num"

\* reading result.id of null throws a TypeError inside the try block
FilterThrows(a) == \E i \in 1..Len(a) : a[i].t = "null"

RECURSIVE FilterPairs(_)
FilterPairs(a) ==
    IF a = <<>> THEN <<>>
    ELSE IF WellFormed(Head(a)) THEN <<Head(a)>> \o FilterPairs(Tail(a))
    ELSE FilterPairs(Tail(a))

\* { ...items[result.id], finalScore: result.score }
AiItem(items, e) ==
    IF e.id.n \in 0..(Len(items) - 1)
    THEN [items[e.id.n + 1] EXCEPT !.finalScore = e.score]
    ELSE [t |-> "obj", id |-> Undefined, content |-> Undefined,
          length |-> Undefined, finalScore |-> e.score]

\* ai.run's answer `out` sends aiRerank to mathRerank(query, items)
AiFallsBack(out) ==
    \/ out.t = "throw"
    \/ out.t = "none"
    \/ ~Truthy(out.response)
    \/ out.response.t # "array"
    \/ FilterThrows(out.response.a)

\* the list aiRerank returns when it does not fall back
AiRanked(items, out) ==
    LET kept == FilterPairs(out.response.a)
    IN  SortByScore([i \in 1..Len(kept) |-> AiItem(items, kept[i])])

-----------------------------------------------------------------------------
(* The requests and the answers of the neural capability that are explored *)

Item(id, content, length, finalScore) ==
    [t |-> "obj", id |-> id, content |-> content, length |-> length,
     finalScore |-> finalScore]

QueryStr == <<"a", "b", "c">>
ContentOld == <<"a", "b", "c", " ", "2", "0", "2", "4">>
ContentShort == <<"x">>
ContentLong == [i \in 1..50 |-> IF i = 2 THEN " " ELSE "d"]

ItemA == Item(Str(<<"a">>), Str(ContentOld), Undefined, Undefined)
ItemB == Item(Str(<<"b">>), Str(ContentShort), Num(999), Num(12345))
ItemC == Item(Str(<<"c">>), Str(ContentLong), Undefined, Undefined)

ValidItemLists == {<<ItemB, ItemC, ItemA>>}

InvalidItemLists ==
    {<<>>,
     <<Null>>,
     <<Item(Str(<<>>), Str(ContentShort), Undefined, Undefined), Null>>,
     <<ItemA, Item(Str(<<"b">>), Undefined, Undefined, Undefined)>>,
     <<Item(Undefined, Str(ContentShort), Undefined, Undefined)>>}

TopKs == {Undefined, Num(0), Num(-1), Num(2), Num(4)}

Modes == {Undefined, Str(AiStr)}

ExcludeLists == {Undefined, Arr(<<RecencyStr, LengthStr>>)}

Body(query, items, excludeFactors, mode, topK) ==
    [query |-> query, items |-> items, excludeFactors |-> excludeFactors,
     mode |-> mode, topK |-> topK]

ValidBodies ==
    {Body(Str(QueryStr), Arr(l), e, m, k) :
        l \in ValidItemLists, e \in ExcludeLists, m \in Modes, k \in TopKs}

InvalidBodies ==
    {Body(Str(QueryStr), Arr(l), Undefined, Undefined, Num(1)) :
        l \in InvalidItemLists}
    \cup {Body(q, Arr(<<ItemA, ItemB>>), Undefined, Undefined, Undefined) :
            q \in {Undefined, Str(<<>>)}}
    \cup {Body(Str(QueryStr), i, Undefined, Str(AiStr), Undefined) :
            i \in {Undefined, Str(<<"x">>)}}

\* a request whose mode is a string other than "math" and "ai"
OtherModeBodies ==
    {Body(Str(QueryStr), Arr(l), Undefined, Str(<<"x">>), Undefined) :
        l \in ValidItemLists}

Bodies == ValidBodies \cup InvalidBodies \cup OtherModeBodies

Pair(id, score) == [t |-> "obj", id |-> Num(id), score |-> Num(score)]
BadPair == [t |-> "obj", id |-> Str(<<"1">>), score |-> Num(50)]

AiArrays ==
    {<<>>,
     <<Pair(1, 50), Pair(0, 90)>>,
     <<Pair(0, 50), Pair(1, 50), Pair(2, 50)>>,
     <<Pair(0, 90), Pair(0, 50)>>,
     <<Pair(7, 90), Pair(1, 95)>>,
     <<Pair(0, 90), BadPair>>,
     <<Pair(0, 90), Null>>}

\* what `await ai.run(...)` can do: throw, or resolve to nothing, or to an
\* object whose response field is missing, not an array, or an array
AiOutcomes ==
    {[t |-> "throw"], [t |-> "none"],
     [t |-> "resp", response |-> Undefined],
     [t |-> "resp", response |-> Str(<<"x">>)]}
    \cup {[t |-> "resp", response |-> Arr(a)] : a \in AiArrays}

\* the requests explored when two requests overlap
ConcBodies ==
    {Body(Str(QueryStr), Arr(l), Undefined, m, k) :
        l \in ValidItemLists, m \in Modes, k \in {Undefined, Num(2)}}

\* and the answers of the neural capability explored then
ConcAiOutcomes ==
    {[t |-> "throw"],
     [t |-> "resp", response |-> Arr(<<Pair(1, 50), Pair(0, 90)>>)],
     [t |-> "resp", response |-> Arr(<<Pair(0, 50), Pair(1, 50), Pair(2, 50)>>)]}

-----------------------------------------------------------------------------
(* POST /rerank: the pieces of the handler *)

\* items.some(item => !item.id || !item.content): "true", "false", or
\* "throws" when a null item is reached before any defective one
RECURSIVE SomeDefective(_)
SomeDefective(items) ==
    IF items = <<>> THEN "false"
    ELSE IF Head(items).t = "null" THEN "throws"
    ELSE IF ~Truthy(Head(items).id) \/ ~Truthy(Head(items).content) THEN "true"
    ELSE SomeDefective(Tail(items))

\* the status validation answers with, or 0 when the request goes on
Validate(b) ==
    IF ~Truthy(b.query) \/ ~Truthy(b.items) \/ b.items.t # "array" THEN 400
    ELSE IF Len(b.items.a) = 0 THEN 400
    ELSE IF SomeDefective(b.items.a) = "true" THEN 400
    ELSE IF SomeDefective(b.items.a) = "throws" THEN 500
    ELSE 0

ModeOf(b) == Default(b.mode, Str(MathStr))
ExcludeOf(b) == Default(b.excludeFactors, Arr(<<>>))

\* topK && topK > 0
HasTopK(topK) == Truthy(topK) /\ topK.n > 0

\* mutant: `if (topK)` without the sign test; slice(0, k) with k < 0 drops
\* the last -k elements
ApplyTopKUnsigned(list, topK) ==
    IF Truthy(topK)
    THEN IF topK.n < 0 THEN SubSeq(list, 1, Max(Len(list) + topK.n, 0))
         ELSE Slice(list, topK.n)
    ELSE list

\* if (topK && topK > 0) list = list.slice(0, topK)
ApplyTopK(list, topK) == IF HasTopK(topK) THEN Slice(list, topK.n) ELSE list

\* the response object of the cold path, built from the ranked list
BuildResponse(rankedItems, b) ==
    [items |-> ApplyTopK(rankedItems, b.topK), method |-> ModeOf(b),
     cached |-> FALSE]

\* JSON.stringify of a response object; the store holds strings
Stringify(r) == [t |-> "json", v |-> r]

\* a stored string that is not JSON
Garbage == [t |-> "garbage"]

ParseThrows(str) == str.t # "json"

\* JSON.parse
Parse(str) == str.v

\* what is put into the cache for the response r
CacheValue(r) == Stringify(r)

\* the response object of the hot path
HitResponse(str, topK) ==
    [Parse(str) EXCEPT !.cached = TRUE,
                       !.items = ApplyTopK(Parse(str).items, topK)]

NoResponse == [items |-> <<>>, method |-> Undefined, cached |-> FALSE]
NoOps == [get |-> 0, getFailed |-> FALSE, run |-> 0, math |-> 0, put |-> 0,
          putFailed |-> FALSE]
\* one more operation issued
Count(n) == IF n < MaxCount THEN n + 1 ELSE n

NoBody == Body(Undefined, Undefined, Undefined, Undefined, Undefined)
NoAi == [t |-> "unused"]

-----------------------------------------------------------------------------
(* The state machine *)

NoKeys == [k \in {} |-> Garbage]

IdleSlots == [p \in Procs |-> "idle"]

Init ==
    /\ store = NoKeys
    /\ wrote = NoKeys
    /\ smartRerankerInstance = FALSE
    /\ tfidf = <<>>
    /\ calls = <<>>
    /\ currentYear = FirstYear
    /\ lib \in 0..MaxLib
    /\ pc = IdleSlots
    /\ body = [p \in Procs |-> NoBody]
    /\ cacheKey = [p \in Procs |-> <<>>]
    /\ excl = [p \in Procs |-> <<>>]
    /\ fellBack = [p \in Procs |-> FALSE]
    /\ aiSeen = [p \in Procs |-> NoAi]
    /\ full = [p \in Procs |-> <<>>]
    /\ rankYear = [p \in Procs |-> 0]
    /\ response = [p \in Procs |-> NoResponse]
    /\ status = [p \in Procs |-> 0]
    /\ ops = [p \in Procs |-> NoOps]
    /\ served = 0
    /\ kin = <<>>
    /\ kout = <<>>

\* a request arrives: the body is destructured and validated; a request that
\* passes has its key derived (excludeFactors is sorted in place by that)
Receive(p, b) ==
    /\ pc[p] \in {"idle", "done"}
    /\ served < MaxReqs
    /\ served' = served + 1
    /\ body' = [body EXCEPT ![p] = b]
    /\ fellBack' = [fellBack EXCEPT ![p] = FALSE]
    /\ aiSeen' = [aiSeen EXCEPT ![p] = NoAi]
    /\ full' = [full EXCEPT ![p] = <<>>]
    /\ rankYear' = [rankYear EXCEPT ![p] = 0]
    /\ response' = [response EXCEPT ![p] = NoResponse]
    /\ ops' = [ops EXCEPT ![p] = NoOps]
    /\ IF Validate(b) # 0
       THEN /\ status' = [status EXCEPT ![p] = Validate(b)]
            /\ pc' = [pc EXCEPT ![p] = "done"]
            /\ cacheKey' = [cacheKey EXCEPT ![p] = <<>>]
            /\ excl' = [excl EXCEPT ![p] = <<>>]
       ELSE /\ status' = [status EXCEPT ![p] = 0]
            /\ pc' = [pc EXCEPT ![p] = "get"]
            /\ cacheKey' = [cacheKey EXCEPT ![p] =
                   generateCacheKey(Text(b.query), b.items.a, Text(ModeOf(b)),
                                    ExcludeOf(b).a)]
            /\ excl' = [excl EXCEPT ![p] = SortStrings(ExcludeOf(b).a)]
    /\ UNCHANGED <<store, wrote, smartRerankerInstance, tfidf, currentYear, lib,
                   calls, kin, kout>>

\* mutant: no try block around the read, so get's exception reaches the
\* outer catch
ReadOutcomeUncaught(outcome, key) ==
    IF outcome = "throw" THEN "error"
    ELSE IF outcome = "value" /\ key \in DOMAIN store /\ ~ParseThrows(store[key])
    THEN "hit" ELSE "miss"

\* how the read of the cache ends: "hit", or "miss" when the key is absent
\* or the inner try block caught get's or JSON.parse's exception; "error"
\* stands for an exception that reaches the handler's outer catch
ReadOutcome(outcome, key) ==
    IF outcome = "value" /\ key \in DOMAIN store /\ ~ParseThrows(store[key])
    THEN "hit" ELSE "miss"

\* mode === "ai" chooses aiRerank, anything else mathRerank
Dispatch(b) == IF ModeOf(b) = Str(AiStr) THEN "ai" ELSE "math"

\* RERANK_CACHE.get(cacheKey) settles: it throws, or yields a string that is
\* not JSON, or yields what the store holds under the key
CacheGet(p, outcome) ==
    /\ pc[p] = "get"
    /\ ops' = [ops EXCEPT ![p].get = Count(@),
                          ![p].getFailed = (outcome # "value")]
    /\ CASE ReadOutcome(outcome, cacheKey[p]) = "hit" ->
              /\ response' = [response EXCEPT ![p] =
                     HitResponse(store[cacheKey[p]], body[p].topK)]
              /\ status' = [status EXCEPT ![p] = 200]
              /\ pc' = [pc EXCEPT ![p] = "done"]
         [] ReadOutcome(outcome, cacheKey[p]) = "miss" ->
              /\ pc' = [pc EXCEPT ![p] = Dispatch(body[p])]
              /\ UNCHANGED <<response, status>>
         [] OTHER ->
              /\ status' = [status EXCEPT ![p] = 500]
              /\ pc' = [pc EXCEPT ![p] = "done"]
              /\ UNCHANGED response
    /\ UNCHANGED <<store, wrote, smartRerankerInstance, currentYear, lib, body,
                   cacheKey, excl, fellBack, aiSeen, full, rankYear, served,
                   tfidf, calls, kin, kout>>

\* the cold path once the ranked list is known: truncate, build the response
Ranked(p, rankedItems) ==
    /\ full' = [full EXCEPT ![p] = rankedItems]
    /\ rankYear' = [rankYear EXCEPT ![p] = currentYear]
    /\ response' = [response EXCEPT ![p] = BuildResponse(rankedItems, body[p])]
    /\ pc' = [pc EXCEPT ![p] = "put"]

\* the factors mathRerank is called with: the request's, or none on fallback
MathExclude(p) == IF fellBack[p] THEN <<>> ELSE excl[p]

\* mutant: a failed ai.run is tried again
AfterAiRetry(out) == IF AiFallsBack(out) THEN "ai" ELSE "put"

\* where aiRerank goes once ai.run has settled: on to mathRerank (the
\* early return and the catch block), or back to the handler with its list
AfterAi(out) == IF AiFallsBack(out) THEN "math" ELSE "put"

\* ai.run(...) settles inside aiRerank
AiRun(p, out) ==
    /\ pc[p] = "ai"
    /\ ops' = [ops EXCEPT ![p].run = Count(@)]
    /\ aiSeen' = [aiSeen EXCEPT ![p] = out]
    /\ IF AfterAi(out) = "put"
       THEN /\ Ranked(p, AiRanked(body[p].items.a, out))
            /\ UNCHANGED fellBack
       ELSE /\ fellBack' = [fellBack EXCEPT ![p] = TRUE]
            /\ pc' = [pc EXCEPT ![p] = AfterAi(out)]
            /\ UNCHANGED <<full, rankYear, response>>
    /\ UNCHANGED <<store, wrote, smartRerankerInstance, currentYear, lib, body,
                   cacheKey, excl, status, served, tfidf, calls, kin, kout>>

\* mathRerank: getSmartReranker() finds the instance, or starts the import
MathRerank(p) ==
    /\ pc[p] = "math"
    /\ ops' = [ops EXCEPT ![p].math = Count(@)]
    /\ IF smartRerankerInstance
       THEN /\ Ranked(p, rerank(Text(body[p].query), body[p].items.a,
                                MathExclude(p)))
            /\ tfidf' = TfIdfAfter(Text(body[p].query), body[p].items.a,
                                   MathExclude(p))
       ELSE /\ pc' = [pc EXCEPT ![p] = "import"]
            /\ UNCHANGED <<full, rankYear, response, tfidf>>
    /\ UNCHANGED <<store, wrote, smartRerankerInstance, currentYear, lib, body,
                   cacheKey, excl, fellBack, aiSeen, status, served, calls, kin, kout>>

\* the import settles: the instance is constructed and rerank runs
ImportDone(p) ==
    /\ pc[p] = "import"
    /\ smartRerankerInstance' = TRUE
    /\ Ranked(p, rerank(Text(body[p].query), body[p].items.a, MathExclude(p)))
    /\ tfidf' = TfIdfAfter(Text(body[p].query), body[p].items.a, MathExclude(p))
    /\ UNCHANGED <<store, wrote, currentYear, lib, body, cacheKey, excl, fellBack,
                   aiSeen, status, ops, served, calls, kin, kout>>

\* RERANK_CACHE.put(...) settles (it may throw); the response is sent
CachePut(p, ok) ==
    /\ pc[p] = "put"
    /\ ops' = [ops EXCEPT ![p].put = Count(@), ![p].putFailed = ~ok]
    /\ IF ok
       THEN /\ store' = (cacheKey[p] :> CacheValue(response[p])) @@ store
            /\ wrote' = (cacheKey[p] :> [n |-> Len(body[p].items.a), full |-> full[p]]) @@ wrote
       ELSE UNCHANGED <<store, wrote>>
    /\ status' = [status EXCEPT ![p] = 200]
    /\ pc' = [pc EXCEPT ![p] = "done"]
    /\ UNCHANGED <<smartRerankerInstance, currentYear, lib, body, cacheKey, excl,
                   fellBack, aiSeen, full, rankYear, response, served, tfidf,
                   calls, kin, kout>>

\* an entry reaches its expirationTtl
Expire(k) ==
    /\ k \in DOMAIN store
    /\ store' = [j \in DOMAIN store \ {k} |-> store[j]]
    /\ wrote' = [j \in DOMAIN wrote \ {k} |-> wrote[j]]
    /\ UNCHANGED <<smartRerankerInstance, currentYear, lib, pc, body, cacheKey,
                   excl, fellBack, aiSeen, full, rankYear, response, status, ops,
                   served, tfidf, calls, kin, kout>>

\* the calendar year changes
Tick ==
    /\ currentYear < FirstYear + MaxTick
    /\ currentYear' = currentYear + 1
    /\ UNCHANGED <<store, wrote, smartRerankerInstance, lib, pc, body, cacheKey,
                   excl, fellBack, aiSeen, full, rankYear, response, status, ops,
                   served, tfidf, calls, kin, kout>>

\* one request after another
Next ==
    \/ \E p \in Solo, b \in Bodies : Receive(p, b)
    \/ \E p \in Solo, outcome \in {"value", "throw", "garbage"} : CacheGet(p, outcome)
    \/ \E p \in Solo, out \in AiOutcomes : AiRun(p, out)
    \/ \E p \in Solo : MathRerank(p)
    \/ \E p \in Solo : ImportDone(p)
    \/ \E p \in Solo, ok \in BOOLEAN : CachePut(p, ok)
    \/ \E k \in DOMAIN store : Expire(k)
    \/ Tick

Spec == Init /\ [][Next]_vars

\* a step of the request in slot p: an awaited operation settles
Step(p) ==
    \/ \E outcome \in {"value", "throw", "garbage"} : CacheGet(p, outcome)
    \/ \E out \in AiOutcomes : AiRun(p, out)
    \/ MathRerank(p)
    \/ ImportDone(p)
    \/ \E ok \in BOOLEAN : CachePut(p, ok)

\* the requests explored where fairness is assumed
FairBodies ==
    {Body(Str(QueryStr), Arr(<<ItemB>>), Undefined, m, Undefined) : m \in Modes}
    \cup {Body(Str(QueryStr), Arr(<<Null>>), Undefined, Undefined, Undefined)}

FairNext ==
    \/ \E p \in Solo, b \in FairBodies : Receive(p, b)
    \/ \E p \in Solo : Step(p)
    \/ \E k \in DOMAIN store : Expire(k)
    \/ Tick

\* every awaited operation settles in the end
FairSpec == Init /\ [][FairNext]_vars /\ \A p \in Solo : WF_vars(Step(p))

\* two requests that may overlap
ConcNext ==
    \/ \E p \in Procs, b \in ConcBodies : Receive(p, b)
    \/ \E p \in Procs, outcome \in {"value", "throw", "garbage"} : CacheGet(p, outcome)
    \/ \E p \in Procs, out \in ConcAiOutcomes : AiRun(p, out)
    \/ \E p \in Procs : MathRerank(p)
    \/ \E p \in Procs : ImportDone(p)
    \/ \E p \in Procs, ok \in BOOLEAN : CachePut(p, ok)
    \/ \E k \in DOMAIN store : Expire(k)
    \/ Tick

ConcSpec == Init /\ [][ConcNext]_vars

-----------------------------------------------------------------------------
(* Key derivation on its own: two inputs, whose keys are derived together *)

KeyAlphabet == {"a", ":"}

\* the non-empty strings over KeyAlphabet of at most MaxKeyLen characters
KeyStrings ==
    UNION {[1..n -> KeyAlphabet] : n \in 1..MaxKeyLen}

KeyItem(id, content) == Item(Str(id), Str(content), Undefined, Undefined)

KeyItemLists ==
    {<<KeyItem(id, <<"a">>)>> : id \in KeyStrings}
    \cup {<<KeyItem(<<"a">>, <<"a">>), KeyItem(<<"b">>, <<"b">>)>>,
          <<KeyItem(<<"b">>, <<"b">>), KeyItem(<<"a">>, <<"a">>)>>}

KeyExcludeLists ==
    {<<LengthStr>>, <<LengthStr, LengthStr>>, <<RecencyStr, LengthStr>>,
     <<LengthStr, RecencyStr>>}

KeyInputs ==
    [query : KeyStrings, items : KeyItemLists, mode : {MathStr, AiStr},
     excludeFactors : KeyExcludeLists]

KeyOf(in) == generateCacheKey(in.query, in.items, in.mode, in.excludeFactors)

KeyInit ==
    /\ store = NoKeys
    /\ wrote = NoKeys
    /\ smartRerankerInstance = FALSE
    /\ tfidf = <<>>
    /\ calls = <<>>
    /\ currentYear = FirstYear
    /\ lib = 0
    /\ pc = IdleSlots
    /\ body = [p \in Procs |-> NoBody]
    /\ cacheKey = [p \in Procs |-> <<>>]
    /\ excl = [p \in Procs |-> <<>>]
    /\ fellBack = [p \in Procs |-> FALSE]
    /\ aiSeen = [p \in Procs |-> NoAi]
    /\ full = [p \in Procs |-> <<>>]
    /\ rankYear = [p \in Procs |-> 0]
    /\ response = [p \in Procs |-> NoResponse]
    /\ status = [p \in Procs |-> 0]
    /\ ops = [p \in Procs |-> NoOps]
    /\ served = 0
    /\ kin \in KeyInputs \X KeyInputs
    /\ kout = <<>>

\* both keys are derived
DeriveKeys ==
    /\ kout = <<>>
    /\ kout' = <<KeyOf(kin[1]), KeyOf(kin[2])>>
    /\ UNCHANGED <<handlerVars, calls, kin>>

KeyNext == DeriveKeys

KeySpec == KeyInit /\ [][KeyNext]_vars

-----------------------------------------------------------------------------
(* SmartReranker.rerank on its own: calls made one after another on the same
   instance, in the course of which the year may change *)

Factors ==
    <<VectorScoreStr, SemanticScoreStr, QueryTermMatchStr, RecencyStr, LengthStr>>

FactorSet == {Factors[i] : i \in 1..Len(Factors)}

\* the factors of S as a list
FactorList(S) == SelectSeq(Factors, LAMBDA f : f \in S)

ContentAncient == <<"i", "n", " ", "2", "0", "1", "0">>

ItemD == Item(Str(<<"d">>), Str(ContentOld), Undefined, Undefined)
ItemE == Item(Str(<<"e">>), Str(ContentAncient), Undefined, Undefined)

RankItemLists ==
    {<<ItemB, ItemC, ItemA>>, <<ItemA, ItemD, ItemB>>, <<ItemE, ItemB>>}

RankInputs ==
    [query : {QueryStr}, items : RankItemLists,
     excludeFactors : {FactorList(S) : S \in SUBSET FactorSet}]

\* reranker.rerank(query, items, excludeFactors) is called and returns
CallRerank(in) ==
    /\ Len(calls) < MaxCalls
    /\ calls' = Append(calls,
                   [in |-> in, year |-> currentYear,
                    out |-> rerank(in.query, in.items, in.excludeFactors)])
    /\ tfidf' = TfIdfAfter(in.query, in.items, in.excludeFactors)
    /\ UNCHANGED <<store, wrote, smartRerankerInstance, currentYear, lib, pc, body,
                   cacheKey, excl, fellBack, aiSeen, full, rankYear, response,
                   status, ops, served, kin, kout>>

RankNext ==
    \/ \E in \in RankInputs : CallRerank(in)
    \/ Tick

RankSpec == Init /\ [][RankNext]_vars

-----------------------------------------------------------------------------
(* Properties *)

IsMath(b) == ModeOf(b) = Str(MathStr)

\* slot p has sent a 200 response that was computed, not read from the cache
ServedCold(p) ==
    pc[p] = "done" /\ status[p] = 200 /\ ~response[p].cached

\* slot p has sent a 200 response read from the cache
ServedHot(p) ==
    pc[p] = "done" /\ status[p] = 200 /\ response[p].cached

\* the ranked list the request b gets on a cache miss when ai.run answers
\* out, computed in the current year
ColdList(b, out) ==
    IF ModeOf(b) = Str(AiStr)
    THEN IF AiFallsBack(out)
         THEN rerank(Text(b.query), b.items.a, <<>>)
         ELSE AiRanked(b.items.a, out)
    ELSE rerank(Text(b.query), b.items.a, SortStrings(ExcludeOf(b).a))

WithoutTopK(b) == [b EXCEPT !.topK = Undefined]

\* C1 (as claimed): every value in the cache holds the full ranked list of
\* the request that wrote it, one entry per input item, never the truncated
\* list.  Stated here for the entries written by math-mode requests.
C1_CacheHoldsFullList ==
    \A k \in DOMAIN store :
        Parse(store[k]).method = Str(MathStr) =>
            /\ Len(Parse(store[k]).items) = wrote[k].n
            /\ Parse(store[k]).items = wrote[k].full

\* C2 (as claimed): a request answered from the cache gets the first
\* min(k2, n) items of the full ranking of the request that filled the entry
\* (all of them without a positive topK), whatever topK that request had.
\* Stated here for math-mode requests.
C2_HitReturnsPrefixOfFull ==
    \A p \in Solo :
        (ServedHot(p) /\ IsMath(body[p]) /\ cacheKey[p] \in DOMAIN wrote) =>
            response[p].items =
                IF HasTopK(body[p].topK)
                THEN SubSeq(wrote[cacheKey[p]].full, 1,
                            Min(body[p].topK.n, Len(body[p].items.a)))
                ELSE wrote[cacheKey[p]].full

\* C3: a math-mode request served on a cache miss returns, for topK > 0, the
\* first min(topK, n) items of what the same request without topK returns,
\* and all n items of that list when topK is absent, 0 or negative.
C3_TopKIsPrefixOfUntruncated ==
    \A p \in Solo :
        (ServedCold(p) /\ IsMath(body[p]) /\ rankYear[p] = currentYear) =>
            LET n == Len(body[p].items.a)
                topK == body[p].topK
                untruncated ==
                    BuildResponse(ColdList(WithoutTopK(body[p]), NoAi),
                                  WithoutTopK(body[p])).items
            IN  /\ Len(untruncated) = n
                /\ (topK.t = "num" /\ topK.n > 0) =>
                       response[p].items = SubSeq(untruncated, 1, Min(topK.n, n))
                /\ ~(topK.t = "num" /\ topK.n > 0) =>
                       response[p].items = untruncated

\* C3 witness: a math-mode miss with topK = 2 on three items returned two
C3_Witness ==
    \E p \in Solo :
        /\ ServedCold(p) /\ IsMath(body[p]) /\ rankYear[p] = currentYear
        /\ body[p].topK = Num(2)
        /\ Len(body[p].items.a) = 3
        /\ Len(response[p].items) = 2

\* the answers of ai.run for which C4 claims the fallback: a thrown error, no
\* response, a response field that is no array, or an array with an element
\* that is no {id: number, score: number} pair
C4_Malformed(out) ==
    \/ out.t \in {"throw", "none"}
    \/ /\ out.t = "resp"
       /\ \/ out.response.t # "array"
          \/ \E i \in 1..Len(out.response.a) : ~WellFormed(out.response.a[i])

\* C4 (as claimed): for each such answer aiRerank returns exactly the list
\* mathRerank(query, items) returns with no excluded factors.
C4_MalformedFallsBackToMath ==
    \A p \in Solo :
        (/\ pc[p] \in {"put", "done"}
         /\ status[p] # 400 /\ status[p] # 500
         /\ ~response[p].cached
         /\ aiSeen[p] # NoAi
         /\ C4_Malformed(aiSeen[p])
         /\ rankYear[p] = currentYear) =>
            full[p] = rerank(Text(body[p].query), body[p].items.a, <<>>)

\* C5: a failing cache never fails the request.  A valid request is answered
\* 200; when get threw or returned a string that is not JSON, and when put
\* threw, the response is the one computed on a miss against an empty store.
C5_CacheFailureAbsorbed ==
    \A p \in Solo :
        /\ (status[p] # 0 /\ Validate(body[p]) = 0) => status[p] = 200
        /\ (pc[p] = "done" /\ Validate(body[p]) = 0
            /\ (ops[p].getFailed \/ ops[p].putFailed)
            /\ rankYear[p] = currentYear) =>
               /\ status[p] = 200
               /\ ops[p].getFailed => ~response[p].cached
               /\ ~response[p].cached =>
                      response[p] = BuildResponse(ColdList(body[p], aiSeen[p]), body[p])

\* C5 witness: a request whose get failed and whose put failed was answered
C5_Witness ==
    \E p \in Solo :
        /\ pc[p] = "done" /\ status[p] = 200
        /\ ops[p].getFailed /\ ops[p].putFailed
        /\ rankYear[p] = currentYear
        /\ Len(response[p].items) > 0


SetOf(a) == {a[i] : i \in 1..Len(a)}

Occurrences(x, a) == Cardinality({i \in 1..Len(a) : a[i] = x})

IsPermutation(a, b) ==
    /\ Len(a) = Len(b)
    /\ \A x \in SetOf(a) \cup SetOf(b) : Occurrences(x, a) = Occurrences(x, b)

\* the two inputs of the key study agree in query, items and mode
SameButExclude ==
    /\ kin[1].query = kin[2].query
    /\ kin[1].items = kin[2].items
    /\ kin[1].mode = kin[2].mode

C7_DistinctInputsDistinctKeys ==
    (/\ kout # <<>>
     /\ \/ kin[1].query # kin[2].query
        \/ kin[1].items # kin[2].items
        \/ kin[1].mode # kin[2].mode
        \/ SetOf(kin[1].excludeFactors) # SetOf(kin[2].excludeFactors)) =>
        kout[1] # kout[2]

\* a non-empty string
NonEmptyStr(v) == v.t = "str" /\ v.s # <<>>

\* the defects C8 lists: no query, no list of items, an empty list, an item
\* without a non-empty id or a non-empty content
C8_Defect(b) ==
    \/ ~NonEmptyStr(b.query)
    \/ b.items.t # "array"
    \/ Len(b.items.a) = 0
    \/ \E i \in 1..Len(b.items.a) :
          \/ b.items.a[i].t # "obj"
          \/ ~NonEmptyStr(b.items.a[i].id)
          \/ ~NonEmptyStr(b.items.a[i].content)

\* C8 (as claimed): a request with one of the defects is answered 400 and
\* nothing else is done for it; a request with none is never answered 400.
C8_DefectAnswered400 ==
    \A p \in Solo :
        status[p] # 0 =>
            /\ C8_Defect(body[p]) => (status[p] = 400 /\ ops[p] = NoOps)
            /\ ~C8_Defect(body[p]) => status[p] # 400

InFlight(p) == pc[p] \in {"get", "ai", "math", "import", "put"}

C10_DuplicateWriteIdempotent ==
    \A p \in Procs, q \in Procs :
        (/\ p # q
         /\ ServedCold(p) /\ ServedCold(q)
         /\ cacheKey[p] = cacheKey[q]
         /\ IsMath(body[p])
         /\ rankYear[p] = rankYear[q]) =>
            /\ full[p] = full[q]
            /\ cacheKey[p] \in DOMAIN store =>
                   Parse(store[cacheKey[p]]).items = full[p]

\* C11 (as claimed): two calls of rerank with the same arguments return the
\* same list (same order, same finalScore of every item), whenever they are
\* made and whatever was called in between.
C11_SameArgumentsSameRanking ==
    \A i \in 1..Len(calls), j \in 1..Len(calls) :
        calls[i].in = calls[j].in => calls[i].out = calls[j].out

\* C12 (as claimed): in every 200 response computed on a cache miss, each
\* returned item's length is the number of characters of its content, and
\* its finalScore is a number the engine assigned (the score ai.run returned
\* for it when the model's answer was used), whatever length and finalScore
\* the caller supplied.
C12_LengthAndScoreFromEngine ==
    \A p \in Solo :
        ServedCold(p) =>
            \A i \in 1..Len(response[p].items) :
                LET r == response[p].items[i]
                IN  /\ r.content.t = "str"
                    /\ r.length = Num(Len(Text(r.content)))
                    /\ r.finalScore.t = "num"
                    /\ (Dispatch(body[p]) = "ai" /\ ~fellBack[p]) =>
                           \E j \in 1..Len(aiSeen[p].response.a) :
                               /\ WellFormed(aiSeen[p].response.a[j])
                               /\ aiSeen[p].response.a[j].score = r.finalScore

\* C13 (as claimed): the method of every 200 response to a request that
\* passed validation, and of every cache entry, is "math" or "ai"; it is
\* "math" when mode is omitted, and "ai" for a mode = "ai" request even when
\* the math reranker produced the items.
C13_MethodIsMathOrAi ==
    /\ \A p \in Solo :
          (pc[p] = "done" /\ status[p] = 200) =>
              /\ response[p].method \in {Str(MathStr), Str(AiStr)}
              /\ body[p].mode = Undefined => response[p].method = Str(MathStr)
              /\ body[p].mode = Str(AiStr) => response[p].method = Str(AiStr)
    /\ \A k \in DOMAIN store :
          ~ParseThrows(store[k]) =>
              Parse(store[k]).method \in {Str(MathStr), Str(AiStr)}

\* slot p has ranked its items on a cache miss
Computed(p) == pc[p] \in {"put", "done"} /\ status[p] \in {0, 200} /\ rankYear[p] # 0

\* the two slots hold the same request, up to topK
SameRequest(p, q) == WithoutTopK(body[p]) = WithoutTopK(body[q])

\* C14: requests handled by one worker do not interfere through the
\* SmartReranker singleton: whatever ran before or in between on the same
\* instance, two requests that rank the same input (same query, items, mode
\* and exclusions, the same answer of ai.run, ranked in the same year)
\* compute the same list, be it the first request the worker ever ranked
\* alone or one interleaved with another at its suspension points.
C14_NoInterferenceThroughSingleton ==
    \A p \in Procs, q \in Procs :
        (/\ Computed(p) /\ Computed(q)
         /\ SameRequest(p, q)
         /\ aiSeen[p] = aiSeen[q]
         /\ rankYear[p] = rankYear[q]) =>
            full[p] = full[q]

\* C14 witness: two overlapping math requests for the same input, both past
\* the lazy load and the ranking and both waiting for their put, hold the
\* same list, computed on an instance whose tfidf field was written before
C14_Witness ==
    /\ pc[1] = "put" /\ pc[2] = "put"
    /\ IsMath(body[1]) /\ SameRequest(1, 2)
    /\ rankYear[1] = rankYear[2]
    /\ tfidf # <<>>
    /\ Len(full[1]) = 3 /\ full[1] = full[2]

\* the named factors of a returned item that are > 0
NamedActive(d) ==
    \/ d.vectorScore > 0 \/ d.semanticScore > 0 \/ d.queryTermMatch > 0
    \/ d.recency > 0 \/ d.lengthScore > 0

\* the seven-term weighted sum of a returned item's factors
WeightedSum(d) ==
    d.vectorScore * 25 + d.semanticScore * 25 + d.queryTermMatch * 20
    + d.stringScore * 15 + d.fuzzyScore * 10 + d.recency * 3 + d.lengthScore * 2

\* the text-similarity formula
TextSimilaritySum(d) == d.stringScore * 60 + d.fuzzyScore * 40

\* the fuzzy score rerank looks up for an item id
FuzzyOf(query, items, id) ==
    IF id \in DOMAIN calculateFuzzyScore(query, items)
    THEN calculateFuzzyScore(query, items)[id] ELSE 0

\* C15: in every list rerank returns, each named factor listed in
\* excludeFactors is 0; stringScore and fuzzyScore are the computed values
\* whatever is excluded; finalScore is the seven-term weighted sum when a
\* named factor is > 0 and stringScore*0.6 + fuzzyScore*0.4 otherwise.
C15_ScoreComposition ==
    \A c \in 1..Len(calls) : \A i \in 1..Len(calls[c].out) :
        LET in == calls[c].in
            r == calls[c].out[i]
            d == r.debug
        IN  /\ InList(VectorScoreStr, in.excludeFactors) => d.vectorScore = 0
            /\ InList(SemanticScoreStr, in.excludeFactors) => d.semanticScore = 0
            /\ InList(QueryTermMatchStr, in.excludeFactors) => d.queryTermMatch = 0
            /\ InList(RecencyStr, in.excludeFactors) => d.recency = 0
            /\ InList(LengthStr, in.excludeFactors) => d.lengthScore = 0
            /\ d.stringScore = calculateStringSimilarity(in.query, Text(r.content))
            /\ d.fuzzyScore = FuzzyOf(in.query, in.items, Text(r.id))
            /\ NamedActive(d) => r.finalScore = Num(WeightedSum(d))
            /\ ~NamedActive(d) => r.finalScore = Num(TextSimilaritySum(d))

\* C15 witness: a call with all five named factors excluded returned an
\* item scored by the text-similarity formula, whose value differs from the
\* weighted sum's
C15_Witness ==
    \E c \in 1..Len(calls) : \E i \in 1..Len(calls[c].out) :
        LET r == calls[c].out[i]
        IN  /\ Len(calls[c].in.excludeFactors) = 5
            /\ r.finalScore = Num(TextSimilaritySum(r.debug))
            /\ TextSimilaritySum(r.debug) # WeightedSum(r.debug)

\* the position in items of the item with this id (ids are distinct in the
\* lists explored)
PositionOf(items, id) == CHOOSE k \in 1..Len(items) : items[k].id = id

\* the (id, content) pairs of a list
IdsAndContents(a) == [i \in 1..Len(a) |-> <<a[i].id, a[i].content>>]

\* C16: rerank returns a permutation of its input (one entry per input
\* item, same id and content, none dropped or duplicated), in non-increasing
\* finalScore order, items of equal finalScore in their input order.
C16_StablePermutation ==
    \A c \in 1..Len(calls) :
        LET items == calls[c].in.items
            out == calls[c].out
        IN  /\ Len(out) = Len(items)
            /\ IsPermutation(IdsAndContents(out), IdsAndContents(items))
            /\ \A i \in 1..Len(out), j \in 1..Len(out) :
                   i < j =>
                      /\ out[i].finalScore.n >= out[j].finalScore.n
                      /\ out[i].finalScore.n = out[j].finalScore.n =>
                             PositionOf(items, out[i].id) < PositionOf(items, out[j].id)

\* C16 witness: a returned list in which two items have the same finalScore
\* and a third, which came later in the input, ranks before them
C16_Witness ==
    \E c \in 1..Len(calls) :
        LET items == calls[c].in.items
            out == calls[c].out
        IN  /\ Len(out) = 3
            /\ out[2].finalScore = out[3].finalScore
            /\ out[1].finalScore.n > out[2].finalScore.n
            /\ PositionOf(items, out[1].id) = 3

\* slot p ranked with the pairs ai.run returned
RankedByModel(p) ==
    /\ Computed(p) /\ Dispatch(body[p]) = "ai" /\ ~fellBack[p]
    /\ aiSeen[p].t = "resp"

\* C17 (as claimed): when ai.run returns an array of {id, score} pairs,
\* every item aiRerank returns carries the id and content of the input item
\* at a returned index and the returned score as finalScore, whatever index
\* values were returned, so that no returned item lacks an id or content;
\* the list is in non-increasing finalScore order.
C17_ModelItemsAreInputItems ==
    \A p \in Solo :
        RankedByModel(p) =>
            /\ \A i \in 1..Len(full[p]) :
                   /\ Truthy(full[p][i].id) /\ Truthy(full[p][i].content)
                   /\ \E k \in 1..Len(body[p].items.a),
                         j \in 1..Len(aiSeen[p].response.a) :
                          /\ WellFormed(aiSeen[p].response.a[j])
                          /\ aiSeen[p].response.a[j].id = Num(k - 1)
                          /\ aiSeen[p].response.a[j].score = full[p][i].finalScore
                          /\ full[p][i].id = body[p].items.a[k].id
                          /\ full[p][i].content = body[p].items.a[k].content
            /\ \A i \in 1..Len(full[p]), j \in 1..Len(full[p]) :
                   i < j => full[p][i].finalScore.n >= full[p][j].finalScore.n

\* C18: calculateRecencyScore is at least 0.5 and calculateLengthScore is
\* one of 0.3, 0.5, 0.7, 0.8, so an item for which recency or length is
\* not excluded has an active factor and gets the seven-term weighted sum;
\* the text-similarity formula is used only when both are excluded.
C18_TextFormulaOnlyWithoutRecencyAndLength ==
    \A c \in 1..Len(calls) : \A i \in 1..Len(calls[c].out) :
        LET ex == calls[c].in.excludeFactors
            r == calls[c].out[i]
            d == r.debug
        IN  /\ ~InList(RecencyStr, ex) => d.recency >= 50
            /\ ~InList(LengthStr, ex) => d.lengthScore \in {30, 50, 70, 80}
            /\ ~(InList(RecencyStr, ex) /\ InList(LengthStr, ex)) =>
                   /\ NamedActive(d)
                   /\ r.finalScore = Num(WeightedSum(d))

\* C18 witness: an item whose content names a year more than five years
\* back, with vectorScore, semanticScore and queryTermMatch all 0 and only
\* recency left of the two, is scored by the weighted sum
C18_Witness ==
    \E c \in 1..Len(calls) : \E i \in 1..Len(calls[c].out) :
        LET ex == calls[c].in.excludeFactors
            r == calls[c].out[i]
            d == r.debug
        IN  /\ ~InList(RecencyStr, ex) /\ InList(LengthStr, ex)
            /\ r.content = Str(ContentAncient)
            /\ d.vectorScore = 0 /\ d.semanticScore = 0 /\ d.queryTermMatch = 0
            /\ d.recency = 50
            /\ r.finalScore = Num(WeightedSum(d))
            /\ WeightedSum(d) # TextSimilaritySum(d)

====
